---- MODULE Spec2Model ----
(***************************************************************************)
(* The image compressor's App component as a state machine.  The           *)
(* repository holds two variants of the component:                         *)
(*   "part_000"  src/unnamed/part_000  (decodes the image, tiers the       *)
(*               dimension, falls back to the original when the output is  *)
(*               larger, reports stats)                                    *)
(*   "App.js"    src/src/App.js        (fixed 1920 dimension, quality from *)
(*               the strength, no decode step, no fallback)                *)
(* The variable `variant` says which of the two is running.                *)
(*                                                                         *)
(* The state is the six useState cells of App, the asynchronous work in    *)
(* flight (one record per call of handleCompress: the closure's captured   *)
(* selectedFiles and compressionValue, each per-image async function's     *)
(* position, and the state of the Promise.all joining them), and the       *)
(* browser's table of object URLs created and not yet revoked.             *)
(*                                                                         *)
(* One step of the model is one macrotask of the event loop: an event      *)
(* handler or an asynchronous completion together with every microtask     *)
(* continuation it triggers (so the completion of the last per-image       *)
(* function and the continuation of `await Promise.all` are one step).     *)
(***************************************************************************)
EXTENDS Integers, Sequences, FiniteSets, TLC

VARIABLES variant, selectedFiles, previewUrls, compressedUrls,
          compressionValue, isCompressing, selectedChip,
          batches, liveUrls, nSelections

vars == <<variant, selectedFiles, previewUrls, compressedUrls,
          compressionValue, isCompressing, selectedChip,
          batches, liveUrls, nSelections>>

(*************************** bounds of the model ***************************)
\* longest list of files one picker/drop event delivers
MaxFiles == 2
\* number of handleFileSelect calls that replace the selection
MaxSelections == 2
\* number of handleCompress calls that start a batch
MaxBatches == 2
\* the same two bounds for the join specification, whose batches are longer
JoinSelections == 1
JoinBatches == 1

(**************************** program constants ****************************)
KB == 1024
MB == 1048576
\* useState(null) of selectedChip: no preset is active
NoChip == 0
SliderMin == 1
SliderMax == 99
\* file.size < 100 * 1024
SkipLimitKB == 100
TierHigh == 4000
TierLow == 2000
\* maxWidthOrHeight: 1920 of App.js
FixedDimension == 1920
\* Math.max(0.3, ...) of part_000 and Math.max(1, ...) of App.js, in 1/100 MB
FloorCentiMB_part000 == 30
FloorCentiMB_App == 100
\* initialQuality: 0.9, in percent
InitialQualityPct == 90

Variants == {"part_000", "App.js"}

Max(a, b) == IF a >= b THEN a ELSE b

\* the value fields of compressionOptions
compressionOptions ==
    IF variant = "part_000" THEN {10, 20, 30, 40} ELSE {90, 75, 50, 25}

\* useState(10) / useState(50) of compressionValue
InitialCompressionValue == IF variant = "part_000" THEN 10 ELSE 50

\* the slider offers min..max in steps of 1; the model samples its two ends
SliderValues == {SliderMin, SliderMax}

\* Spec samples one preset and one slider position
SampledOptions == compressionOptions \cap {20, 75}
SampledSliderValues == {SliderMax}

(********************************* files ***********************************)
\* A File the user can hand over: name, MIME type, byte size, and what the
\* bytes decode to (readable = FALSE: the bytes are no decodable image).
\* encoded = FALSE marks a file of the user, TRUE an output of the re-encoder.
mkFile(n, t, s, w, h, r) ==
    [name |-> n, type |-> t, size |-> s, width |-> w, height |-> h,
     readable |-> r, encoded |-> FALSE]

small_png == mkFile("small.png", "image/png", 50 * KB, 1500, 1000, TRUE)
photo_jpg == mkFile("photo.jpg", "image/jpeg", 2 * MB, 4000, 3000, TRUE)
broken_png == mkFile("broken.png", "image/png", 200 * KB, 0, 0, FALSE)
edge_png == mkFile("edge.png", "image/png", 100 * KB, 2000, 2000, TRUE)
wide_jpg == mkFile("wide.jpg", "image/jpeg", 300 * KB, 2001, 500, TRUE)
huge_jpg == mkFile("huge.jpg", "image/jpeg", 1 * MB, 4000, 4001, TRUE)
notes_txt == mkFile("notes.txt", "text/plain", 300 * KB, 0, 0, FALSE)

\* the files of the batch specification (Spec): two images and one file
\* of an image type whose bytes do not decode
Files == { small_png, photo_jpg, broken_png }

\* the files of the per-image specification (PipelineSpec): sizes below, at
\* and above 100KB, longer sides below, at and above both tiers, an
\* undecodable image and a file that is no image
PipelineFiles ==
    { small_png, edge_png, wide_jpg, photo_jpg, huge_jpg, broken_png,
      notes_txt }

\* the file lists an event can deliver (FileList of the input or of the
\* drop): up to MaxFiles files, no file twice
FileLists ==
    { fs \in UNION { [1..n -> Files] : n \in 0..MaxFiles } :
         \A i, j \in 1..Len(fs) : fs[i] = fs[j] => i = j }

\* the file lists of the join specification (JoinSpec): the first n of four
\* different images for n up to MaxFiles, and the undecodable image alone
JoinPool == <<small_png, photo_jpg, huge_jpg, edge_png>>

JoinFileLists ==
    { SubSeq(JoinPool, 1, n) : n \in 0..(IF MaxFiles < 4 THEN MaxFiles ELSE 4) }
    \cup { <<broken_png>> }

PipelineFileLists == { <<>> } \cup { <<f>> : f \in PipelineFiles }

\* file.type.startsWith('image/')
IsImage(f) == f.type \in {"image/png", "image/jpeg"}

RECURSIVE FilterImages(_)
FilterImages(fs) ==
    IF fs = <<>> THEN <<>>
    ELSE IF IsImage(Head(fs)) THEN <<Head(fs)>> \o FilterImages(Tail(fs))
    ELSE FilterImages(Tail(fs))

(******************************* object URLs *******************************)
\* URL.createObjectURL mints a fresh URL on every call; a URL is identified
\* by the call that made it.
PreviewUrl(sel, i) == [kind |-> "preview", of |-> sel, idx |-> i]
DecodeUrl(b, i) == [kind |-> "decode", of |-> b, idx |-> i]
ResultUrl(b, i) == [kind |-> "result", of |-> b, idx |-> i]

TypeOK ==
    /\ variant \in Variants
    /\ isCompressing \in BOOLEAN
    /\ selectedChip \in compressionOptions \cup {NoChip}
    /\ compressionValue \in SliderMin..SliderMax
    /\ Len(selectedFiles) = Len(previewUrls)
    /\ nSelections \in Nat

Init ==
    /\ variant \in Variants
    /\ selectedFiles = <<>>
    /\ previewUrls = <<>>
    /\ compressedUrls = <<>>
    /\ compressionValue = InitialCompressionValue
    /\ isCompressing = FALSE
    /\ selectedChip = NoChip
    /\ batches = <<>>
    /\ liveUrls = {}
    /\ nSelections = 0

(****************************** file selection ******************************)
handleFileSelect(files) ==
    /\ Len(files) > 0
    /\ nSelections' = nSelections + 1
    /\ selectedFiles' = files
    /\ previewUrls' = [i \in 1..Len(files) |-> PreviewUrl(nSelections + 1, i)]
    /\ liveUrls' = liveUrls \cup
                     { PreviewUrl(nSelections + 1, i) : i \in 1..Len(files) }
    /\ compressedUrls' = <<>>
    /\ UNCHANGED <<variant, compressionValue, isCompressing, selectedChip, batches>>

\* onChange of the file input: handleFileSelect(Array.from(e.target.files))
onChange(files) == handleFileSelect(files)

\* onDrop of the drop zone
handleDrop(dropped) ==
    LET files == FilterImages(dropped) IN
    /\ Len(files) > 0
    /\ handleFileSelect(files)

(********************************* strength *********************************)
handleChipClick(value) ==
    /\ selectedChip' = value
    /\ compressionValue' = value
    /\ UNCHANGED <<variant, selectedFiles, previewUrls, compressedUrls,
                   isCompressing, batches, liveUrls, nSelections>>

\* a slider handler that forgets setSelectedChip(null)
handleSliderChange_KeepsChip(newValue) ==
    /\ compressionValue' = newValue
    /\ UNCHANGED <<variant, selectedFiles, previewUrls, compressedUrls,
                   isCompressing, selectedChip, batches, liveUrls, nSelections>>

handleSliderChange(newValue) ==
    /\ compressionValue' = newValue
    /\ selectedChip' = NoChip
    /\ UNCHANGED <<variant, selectedFiles, previewUrls, compressedUrls,
                   isCompressing, batches, liveUrls, nSelections>>

\* the options block is rendered only when previewUrls.length > 0
OptionsShown == Len(previewUrls) > 0

\* the presets drawn as active: selectedChip === option.value
ActiveChips == { v \in compressionOptions : selectedChip = v }

(******************************* the pipeline *******************************)
\* placeholders of a per-image function that has not got that far
NoOpts == [none |-> TRUE]
NoOut == [none |-> TRUE]

\* a / b rounded to the nearest integer, for a >= 0 and b > 0 (toFixed)
RoundDiv(a, b) == (a + b \div 2) \div b

\* maxSizeMB in units of 1/100 byte:
\*   Math.max(floor, file.size / (1024 * 1024) * (1 - compressionValue / 100))
maxSizeMB(file, value) ==
    LET floor == IF variant = "part_000" THEN FloorCentiMB_part000
                 ELSE FloorCentiMB_App
    IN Max(floor * MB, file.size * (100 - value))

\* Math.max(img.width, img.height)
maxDimension(file) == Max(file.width, file.height)

\* the tiers with >= in place of >
maxWidthOrHeight_Inclusive(d) ==
    IF d >= TierHigh THEN TierHigh
    ELSE IF d >= TierLow THEN TierLow
    ELSE d

\* maxDimension > 4000 ? 4000 : maxDimension > 2000 ? 2000 : maxDimension
maxWidthOrHeight(d) ==
    IF d > TierHigh THEN TierHigh
    ELSE IF d > TierLow THEN TierLow
    ELSE d

\* file.size < 100 * 1024
skipCompression(file) == file.size < SkipLimitKB * KB

\* the options object handed to imageCompression
options(file, value) ==
    IF variant = "part_000"
    THEN [maxSizeMB |-> maxSizeMB(file, value),
          maxWidthOrHeight |-> maxWidthOrHeight(maxDimension(file)),
          useWebWorker |-> TRUE,
          initialQuality |-> InitialQualityPct,
          alwaysKeepResolution |-> TRUE,
          preserveExif |-> TRUE,
          skipCompression |-> skipCompression(file)]
    ELSE [maxSizeMB |-> maxSizeMB(file, value),
          useWebWorker |-> TRUE,
          maxWidthOrHeight |-> FixedDimension,
          quality |-> 100 - value]

\* imageCompression is a library outside the repository. What it resolves
\* to is an input of the model: a new File of the same name whose size is
\* below, equal to or above the input's. The source does not branch on
\* options.skipCompression; whether the library honours that key is not
\* decided by the source, so the output is left open for small files too.
Outcomes == {"smaller", "same", "larger"}

EncodedSize(file, outcome) ==
    CASE outcome = "smaller" -> file.size \div 2
      [] outcome = "same" -> file.size
      [] outcome = "larger" -> file.size + KB

EncodedFile(file, outcome) ==
    [name |-> file.name, type |-> file.type,
     size |-> EncodedSize(file, outcome),
     width |-> file.width, height |-> file.height,
     readable |-> TRUE, encoded |-> TRUE]

\* if (compressedFile.size > file.size) compressedFile = file;
\* App.js uses the output as it is
fallback(file, outFile) ==
    IF variant = "part_000" /\ outFile.size > file.size THEN file ELSE outFile

\* the stats record: sizes in 1/100 MB (toFixed(2)), ratio in 1/10 percent
\* (toFixed(1))
stats(file, compressedFile) ==
    [originalSize |-> RoundDiv(file.size * 100, MB),
     compressedSize |-> RoundDiv(compressedFile.size * 100, MB),
     compressionRatio |->
         RoundDiv((file.size - compressedFile.size) * 1000, file.size)]

\* the object a per-image function returns
result(b, i, file, compressedFile) ==
    IF variant = "part_000"
    THEN [url |-> ResultUrl(b, i), file |-> compressedFile,
          originalName |-> file.name, stats |-> stats(file, compressedFile)]
    ELSE [url |-> ResultUrl(b, i), file |-> compressedFile,
          originalName |-> file.name]

\* a per-image async function run up to its first await: part_000 waits
\* for img.onload, App.js for imageCompression
dispatch(file, value) ==
    IF variant = "part_000"
    THEN [pc |-> "decoding", opts |-> NoOpts, out |-> NoOut]
    ELSE [pc |-> "encoding", opts |-> options(file, value), out |-> NoOut]

\* a compress button that is never disabled
compressDisabled_Never == FALSE

\* disabled={isCompressing} of the compress button
compressDisabled == isCompressing

\* Promise.all: fulfilled once every promise is, with the values in the
\* order of the promises
AllFulfilled(pipes) == \A j \in 1..Len(pipes) : pipes[j].pc = "done"

\* the values collected in the order the promises fulfilled
PromiseAllValues_CompletionOrder(pipes, order) ==
    [j \in 1..Len(order) |-> pipes[order[j]].out]

PromiseAllValues(pipes, order) == [j \in 1..Len(pipes) |-> pipes[j].out]

\* A batch whose Promise.all has settled and whose per-image functions have
\* all returned or thrown holds nothing the program can read again: its
\* closures are garbage. Its record is cut down to the outcome.
Finished(batch) ==
    /\ batch.status # "pending"
    /\ \A j \in 1..Len(batch.pipes) : batch.pipes[j].pc \in {"done", "failed"}

Retire(batch) ==
    IF Finished(batch)
    THEN [files |-> <<>>, value |-> 0, pipes |-> <<>>,
          order |-> batch.order, status |-> batch.status]
    ELSE batch

handleCompress ==
    /\ OptionsShown
    /\ ~compressDisabled
    /\ Len(selectedFiles) # 0
    /\ isCompressing' = TRUE
    /\ LET b == Len(batches) + 1 IN
       /\ batches' = Append(batches,
              [files |-> selectedFiles,
               value |-> compressionValue,
               pipes |-> [i \in 1..Len(selectedFiles) |->
                             dispatch(selectedFiles[i], compressionValue)],
               order |-> <<>>,
               status |-> "pending"])
       /\ liveUrls' = IF variant = "part_000"
                      THEN liveUrls \cup
                             { DecodeUrl(b, i) : i \in 1..Len(selectedFiles) }
                      ELSE liveUrls
    /\ UNCHANGED <<variant, selectedFiles, previewUrls, compressedUrls,
                   compressionValue, selectedChip, nSelections>>

Running(b, i, pc) ==
    /\ b \in 1..Len(batches)
    /\ i \in 1..Len(batches[b].pipes)
    /\ batches[b].pipes[i].pc = pc

\* img.onload: the await resumes, the decode URL is revoked, the options
\* are built and imageCompression is called
ImgLoad(b, i) ==
    /\ variant = "part_000"
    /\ Running(b, i, "decoding")
    /\ batches[b].files[i].readable
    /\ batches' = [batches EXCEPT ![b].pipes[i] =
                     [pc |-> "encoding",
                      opts |-> options(batches[b].files[i], batches[b].value),
                      out |-> NoOut]]
    /\ liveUrls' = liveUrls \ {DecodeUrl(b, i)}
    /\ UNCHANGED <<variant, selectedFiles, previewUrls, compressedUrls,
                   compressionValue, isCompressing, selectedChip, nSelections>>

\* the image cannot be decoded: the browser fires the error event, for
\* which no handler is set (only img.onload is), so the awaited promise is
\* never resolved and never rejected
ImgError(b, i) ==
    /\ variant = "part_000"
    /\ Running(b, i, "decoding")
    /\ ~batches[b].files[i].readable
    /\ batches' = [batches EXCEPT ![b].pipes[i].pc = "stalled"]
    /\ UNCHANGED <<variant, selectedFiles, previewUrls, compressedUrls,
                   compressionValue, isCompressing, selectedChip, liveUrls,
                   nSelections>>

\* imageCompression resolves with a File: the per-image function runs to
\* its return; when it was the last one, `await Promise.all` resumes:
\* setCompressedUrls(compressedResults), then finally setIsCompressing(false)
EncodeDone(b, i, outcome) ==
    /\ Running(b, i, "encoding")
    /\ batches[b].files[i].readable
    /\ LET file == batches[b].files[i]
           outFile == EncodedFile(file, outcome)
           compressedFile == fallback(file, outFile)
           pipes == [batches[b].pipes EXCEPT ![i] =
                       [pc |-> "done", opts |-> @.opts,
                        out |-> result(b, i, file, compressedFile)]]
           order == Append(batches[b].order, i)
           settles == batches[b].status = "pending" /\ AllFulfilled(pipes)
       IN
       /\ batches' = [batches EXCEPT ![b] =
                        Retire([@ EXCEPT !.pipes = pipes,
                                         !.order = order,
                                         !.status = IF settles THEN "fulfilled"
                                                    ELSE @])]
       /\ compressedUrls' = IF settles THEN PromiseAllValues(pipes, order)
                            ELSE compressedUrls
       /\ isCompressing' = IF settles THEN FALSE ELSE isCompressing
    /\ liveUrls' = liveUrls \cup {ResultUrl(b, i)}
    /\ UNCHANGED <<variant, selectedFiles, previewUrls, compressionValue,
                   selectedChip, nSelections>>

\* imageCompression rejects: the per-image promise rejects; Promise.all
\* rejects on the first rejection, the catch logs the error and finally
\* clears the flag. The other per-image functions keep running.
EncodeFail(b, i) ==
    /\ Running(b, i, "encoding")
    /\ LET settles == batches[b].status = "pending" IN
       /\ batches' = [batches EXCEPT ![b] =
                        Retire([@ EXCEPT !.pipes[i].pc = "failed",
                                         !.status = IF settles THEN "rejected"
                                                    ELSE @])]
       /\ isCompressing' = IF settles THEN FALSE ELSE isCompressing
    /\ UNCHANGED <<variant, selectedFiles, previewUrls, compressedUrls,
                   compressionValue, selectedChip, liveUrls, nSelections>>

(****************************** UI events ***********************************)
ChipClick(value) == OptionsShown /\ handleChipClick(value)

SliderChange(newValue) == OptionsShown /\ handleSliderChange(newValue)

\* the events of the user, each at most as often as the specification's
\* bound allows
PickFiles(lists, bound) ==
    /\ nSelections < bound
    /\ \E files \in lists : onChange(files)

DropFiles(lists, bound) ==
    /\ nSelections < bound
    /\ \E dropped \in lists : handleDrop(dropped)

CompressClick(bound) ==
    /\ Len(batches) < bound
    /\ handleCompress

PipeIds == 1..MaxFiles

\* the batches started so far
BatchIds == 1..Len(batches)

\* The batch specification: lists of up to MaxFiles files, every
\* interleaving of the events and completions; the strength inputs and the
\* re-encoder's outputs are sampled.
Next ==
    \/ PickFiles(FileLists, MaxSelections)
    \/ DropFiles(FileLists, MaxSelections)
    \/ \E value \in SampledOptions : ChipClick(value)
    \/ \E newValue \in SampledSliderValues : SliderChange(newValue)
    \/ CompressClick(MaxBatches)
    \/ \E b \in BatchIds, i \in PipeIds : ImgLoad(b, i)
    \/ \E b \in BatchIds, i \in PipeIds : ImgError(b, i)
    \/ \E b \in BatchIds, i \in PipeIds : EncodeDone(b, i, "smaller")
    \/ \E b \in BatchIds, i \in PipeIds : EncodeFail(b, i)

Spec == Init /\ [][Next]_vars

\* The per-image specification: the same actions on lists of one file,
\* with every preset, both ends of the slider and every outcome of the
\* re-encoder.
PipelineNext ==
    \/ PickFiles(PipelineFileLists, MaxSelections)
    \/ DropFiles(PipelineFileLists, MaxSelections)
    \/ \E value \in compressionOptions : ChipClick(value)
    \/ \E newValue \in SliderValues : SliderChange(newValue)
    \/ CompressClick(MaxBatches)
    \/ \E b \in BatchIds : ImgLoad(b, 1)
    \/ \E b \in BatchIds : ImgError(b, 1)
    \/ \E b \in BatchIds, outcome \in Outcomes : EncodeDone(b, 1, outcome)
    \/ \E b \in BatchIds : EncodeFail(b, 1)

PipelineSpec == Init /\ [][PipelineNext]_vars

\* The join specification: the same actions on batches of one to MaxFiles
\* different images in every order of completion; which files are chosen
\* and the strength inputs are sampled.
JoinNext ==
    \/ PickFiles(JoinFileLists, JoinSelections)
    \/ DropFiles(JoinFileLists, JoinSelections)
    \/ \E value \in SampledOptions : ChipClick(value)
    \/ \E newValue \in SampledSliderValues : SliderChange(newValue)
    \/ CompressClick(JoinBatches)
    \/ \E b \in BatchIds, i \in PipeIds : ImgLoad(b, i)
    \/ \E b \in BatchIds, i \in PipeIds : ImgError(b, i)
    \/ \E b \in BatchIds, i \in PipeIds : EncodeDone(b, i, "smaller")
    \/ \E b \in BatchIds, i \in PipeIds : EncodeFail(b, i)

JoinSpec == Init /\ [][JoinNext]_vars

\* The event loop delivers every pending completion: an image that is
\* loading fires load or error, a running imageCompression call resolves or
\* rejects. Nothing obliges the user to act.
PipeStep(b, i) ==
    \/ ImgLoad(b, i)
    \/ ImgError(b, i)
    \/ EncodeDone(b, i, "smaller")
    \/ EncodeFail(b, i)

FairSpec ==
    Spec /\ \A b \in 1..MaxBatches, i \in PipeIds : WF_vars(PipeStep(b, i))

(******************************** the claims ********************************)
Pending(b) == b \in 1..Len(batches) /\ batches[b].status = "pending"

\* File names are distinct among the files of the model, so a result's
\* originalName identifies the file it was made from.
InputNamed(n) == CHOOSE f \in Files \cup PipelineFiles : f.name = n

\* every result the state holds, with its input: those on display and those
\* of per-image functions of batches still in flight
ResultPairs ==
    { <<InputNamed(compressedUrls[k].originalName), compressedUrls[k]>> :
         k \in 1..Len(compressedUrls) }
    \cup
    UNION { { <<batches[b].files[i], batches[b].pipes[i].out>> :
                i \in { j \in 1..Len(batches[b].pipes) :
                           batches[b].pipes[j].pc = "done" } } :
            b \in 1..Len(batches) }

\* the per-image functions waiting in their imageCompression call
Encoding ==
    { <<b, i>> \in BatchIds \X PipeIds : Running(b, i, "encoding") }

\* C1: in every reachable state the displayed results list is empty or as
\* long as the current selection.
C1_ResultsMatchSelection ==
    Len(compressedUrls) = 0 \/ Len(compressedUrls) = Len(selectedFiles)

\* C2: the step in which a batch's Promise.all fulfils stores a list with
\* one entry per input file of that batch, entry i made from input i (its
\* originalName is input i's name, its URL the one function i minted),
\* whatever the order of completion.
C2_ResultsAligned ==
    [][\A b \in 1..Len(batches) :
          (batches[b].status = "pending" /\ batches'[b].status = "fulfilled")
          => /\ Len(compressedUrls') = Len(batches[b].files)
             /\ \A i \in 1..Len(batches[b].files) :
                   /\ compressedUrls'[i].originalName = batches[b].files[i].name
                   /\ compressedUrls'[i].url = ResultUrl(b, i)]_vars

\* C2 witness: a batch of two different files has fulfilled, its second
\* function having completed before its first, and its results are shown.
C2_Witness ==
    \E b \in 1..Len(batches) :
       /\ batches[b].status = "fulfilled"
       /\ batches[b].order = <<2, 1>>
       /\ Len(compressedUrls) = 2
       /\ compressedUrls[1].url = ResultUrl(b, 1)
       /\ compressedUrls[1].originalName # compressedUrls[2].originalName

\* C3: the flag is set while any batch is unsettled, every started batch
\* eventually settles, and the flag is eventually cleared again.
C3_BatchSettles ==
    /\ [](\A b \in BatchIds : Pending(b) => isCompressing)
    /\ \A b \in 1..MaxBatches : Pending(b) ~> ~Pending(b)
    /\ isCompressing ~> ~isCompressing

\* C4: at most one batch is unsettled at any time.
C4_OneBatchInFlight ==
    Cardinality({ b \in BatchIds : Pending(b) }) <= 1

\* C4 witness: a batch is unsettled while the user has since changed both
\* the selection and the strength, and the model's bound on batches would
\* still admit another one.
C4_Witness ==
    \E b \in BatchIds :
       /\ Pending(b)
       /\ batches[b].files # selectedFiles
       /\ batches[b].value # compressionValue
       /\ Len(batches) < MaxBatches

\* C5: a result whose file is not the input file is strictly smaller than
\* the input; so no result is larger than its input.
C5_FallbackToOriginal ==
    \A p \in ResultPairs :
       /\ p[2].file # p[1] => p[2].file.size < p[1].size
       /\ p[2].file.size <= p[1].size

\* C6: the result of an input below 100KB holds the input file itself.
C6_SkipPath ==
    \A p \in ResultPairs : p[1].size < 100 * 1024 => p[2].file = p[1]

\* C7: when the latest batch has been rejected, no result is displayed.
C7_NoResultAfterFailure ==
    (Len(batches) > 0 /\ batches[Len(batches)].status = "rejected")
    => compressedUrls = <<>>

\* C8: the preview URLs created and not revoked are exactly those of the
\* current selection.
C8_PreviewsReleased ==
    { u \in liveUrls : u.kind = "preview" }
    = { previewUrls[i] : i \in 1..Len(previewUrls) }

\* C9: at most one preset is drawn active, and when one is the strength is
\* that preset's value (so a slider change has left none active).
C9_PresetExclusive ==
    /\ Cardinality(ActiveChips) <= 1
    /\ \A v \in ActiveChips : compressionValue = v

\* C9 witness: a preset other than the initial strength has been clicked
\* and is the active one.
C9_Witness ==
    /\ selectedChip # NoChip
    /\ compressionValue # InitialCompressionValue
    /\ ActiveChips = {compressionValue}

\* the tiers of C10 for longer side d
C10_Tier(d) == IF d > 4000 THEN 4000 ELSE IF d > 2000 THEN 2000 ELSE d

\* C10 as stated: for every decodable image in its imageCompression call,
\* the maxWidthOrHeight passed is the tier of its longer side d, at most d
\* and at most 4000.
C10_TargetDimension ==
    \A e \in Encoding :
       LET file == batches[e[1]].files[e[2]]
           d == Max(file.width, file.height)
           t == batches[e[1]].pipes[e[2]].opts.maxWidthOrHeight
       IN file.readable => t = C10_Tier(d) /\ t <= d /\ t <= 4000

\* C10 amended: that holds in the part_000 variant; the App.js variant
\* passes 1920 for every file.
C10_TargetDimensionByVariant ==
    \A e \in Encoding :
       LET file == batches[e[1]].files[e[2]]
           d == Max(file.width, file.height)
           t == batches[e[1]].pipes[e[2]].opts.maxWidthOrHeight
       IN /\ variant = "part_000" =>
               t = C10_Tier(d) /\ t <= d /\ t <= 4000
          /\ variant = "App.js" => t = 1920

\* C10 witness: part_000 has passed 4000 for an image whose longer side is
\* above 4000.
C10_Witness ==
    \E e \in Encoding :
       LET file == batches[e[1]].files[e[2]] IN
       /\ variant = "part_000"
       /\ Max(file.width, file.height) > 4000
       /\ batches[e[1]].pipes[e[2]].opts.maxWidthOrHeight = 4000

====
